---- MODULE Spec2Model ----
(***************************************************************************)
(* A model of "Prework file/FinalRecipe.py": the RecipeDB repository over  *)
(* a SQLite store with three AUTOINCREMENT tables (category, recipes,      *)
(* ingredients), the CSV staging lists, and Ingredient's string parsing.   *)
(*                                                                         *)
(* Text that the program only stores and compares (recipe and category     *)
(* names, printed messages) is a TLA+ string.  Text that the program takes *)
(* apart (the ingredient field of a CSV row, an ingredient string) is a    *)
(* sequence of one-character strings, so that split and strip are computed *)
(* character by character as Python computes them.                         *)
(*                                                                         *)
(* db_base.DBbase is taken to hold one sqlite3 connection and one cursor   *)
(* on it (get_connection, get_cursor) and to run execute_script with the   *)
(* cursor's executescript.  Foreign keys are declared but SQLite does not  *)
(* enforce them unless asked to, and the program never asks.               *)
(***************************************************************************)
EXTENDS Integers, Sequences, FiniteSets, TLC

VARIABLES
    schema,              \* TRUE once the three tables exist in the store
    category,            \* rows of table category:    [id, name]
    recipes,             \* rows of table recipes:     [id, name, category_id]
    ingredients,         \* rows of table ingredients: [id, quantity_ingredient, recipe_id]
    sqlite_sequence,     \* AUTOINCREMENT high-water mark of each table
    in_transaction,      \* the connection holds an open (uncommitted) transaction
    recipe_list,         \* self.recipe_list: staged (recipe_name, category_name, ingredients)
    ingredient_list,     \* self.ingredient_list
    category_map,        \* self.category_map, in insertion order: [name, id]
    files,               \* the file system: file name -> [exists, lines as csv.reader yields them]
    out,                 \* the last line printed
    raised,              \* the exception the last call let escape to its caller
    pc,                  \* position of user_interface in its start-up sequence
    ingredient_str,      \* argument of the Ingredient under construction
    quantity_ingredient  \* Ingredient.quantity_ingredient

vars == <<schema, category, recipes, ingredients, sqlite_sequence, in_transaction,
          recipe_list, ingredient_list, category_map, files, out, raised, pc,
          ingredient_str, quantity_ingredient>>

store == <<schema, category, recipes, ingredients, sqlite_sequence>>
tables == <<category, recipes, ingredients>>
staging == <<recipe_list, ingredient_list, category_map>>
object == <<ingredient_str, quantity_ingredient>>

-----------------------------------------------------------------------------
(* Bounds *)

\* recipes.id never exceeds this in the model (guards of the inserting actions)
MaxRecipeSeq == 2

\* longest ingredient string given to Ingredient in SpecParse
MaxLen == 4

\* most data rows of recipes.csv in SpecImport
MaxRows == 2

-----------------------------------------------------------------------------
(* Values *)

\* SQL NULL / Python None where an id is expected (ids start at 1)
NULL == 0

\* Python None where a string is expected
None == "None"

\* no exception escaped
NoError == "none"

IntegrityError == "sqlite3.IntegrityError"
OperationalError == "sqlite3.OperationalError"

\* str.strip() with no argument strips these
Whitespace == {" ", "\t", "\n", "\r"}

Msg_created == "Database tables created successfully."
Msg_read == "Data read successfully from file."
Msg_read_error == "Error reading file:"
Msg_saved == "Data saved to database successfully."
Msg_aborted == "Save to DB aborted"
Msg_records == "Number of records to save:"
Msg_no_category == "Category does not exist. Please add the category first."
Msg_added == "Recipe added successfully!"
Msg_deleted == "Recipe deleted successfully!"
Msg_delete_error == "Error deleting recipe:"
Msg_updated == "Recipe updated successfully!"
Msg_update_error == "Error updating recipe:"

Msg_none == ""

\* print(): the model keeps the last line of standard output
print(log, line) == line

-----------------------------------------------------------------------------
(* Python string functions on character sequences *)

Has(s, sep) == \E i \in 1..Len(s) : s[i] = sep

FirstIndex(s, sep) == CHOOSE i \in 1..Len(s) : s[i] = sep /\ \A j \in 1..(i-1) : s[j] # sep

\* s.split(sep): every occurrence of sep separates, empty pieces are kept
RECURSIVE split(_, _)
split(s, sep) ==
    IF ~Has(s, sep) THEN <<s>>
    ELSE LET i == FirstIndex(s, sep)
         IN  <<SubSeq(s, 1, i-1)>> \o split(SubSeq(s, i+1, Len(s)), sep)

\* s.split(sep, 1): at most one split, at the first occurrence of sep
split_1(s, sep) ==
    IF ~Has(s, sep) THEN <<s>>
    ELSE LET i == FirstIndex(s, sep)
         IN  <<SubSeq(s, 1, i-1), SubSeq(s, i+1, Len(s))>>

\* s.lstrip()
RECURSIVE lstrip(_)
lstrip(s) == IF s # <<>> /\ Head(s) \in Whitespace THEN lstrip(Tail(s)) ELSE s

\* s.rstrip()
RECURSIVE rstrip(_)
rstrip(s) ==
    IF s # <<>> /\ s[Len(s)] \in Whitespace THEN rstrip(SubSeq(s, 1, Len(s)-1)) ELSE s

\* s.strip()
strip(s) == rstrip(lstrip(s))

-----------------------------------------------------------------------------
(* class Ingredient *)

\* faulty variant: quantity and name taken from the wrong parts
parse_ingredient_swapped(s) ==
    LET parts == split_1(s, " ")
    IN  IF Len(parts) > 1
        THEN [name |-> strip(parts[1]), quantity |-> strip(parts[2])]
        ELSE [name |-> strip(parts[1]), quantity |-> <<>>]

\* Ingredient.parse_ingredient: returns (name, quantity)
parse_ingredient(s) ==
    LET parts == split_1(s, " ")
    IN  IF Len(parts) > 1
        THEN [name |-> strip(parts[2]), quantity |-> strip(parts[1])]
        ELSE [name |-> strip(parts[1]), quantity |-> <<>>]

\* Ingredient.__init__: the f-string f"{quantity} {name}"
Ingredient(s) ==
    LET p == parse_ingredient(s)
    IN  p.quantity \o <<" ">> \o p.name

-----------------------------------------------------------------------------
(* The store: tables created by reset_or_create_db *)

Tables == {"category", "recipes", "ingredients"}

MaxRowId(rows) == IF rows = {} THEN 0 ELSE CHOOSE m \in {r.id : r \in rows} : \A r \in rows : r.id <= m

Larger(a, b) == IF a >= b THEN a ELSE b

\* faulty variant: a plain INTEGER PRIMARY KEY, which reuses the id of a
\* deleted last row
AutoIncrement_rowid(seq, rows) == MaxRowId(rows) + 1

\* id INTEGER PRIMARY KEY AUTOINCREMENT: one more than the largest id the
\* table has ever held, which sqlite_sequence remembers across deletes
AutoIncrement(seq, rows) == Larger(seq, MaxRowId(rows)) + 1

\* the rows of a table in id order: SELECT ... ORDER BY id
RECURSIVE InIdOrder(_)
InIdOrder(rows) ==
    IF rows = {} THEN <<>>
    ELSE LET m == CHOOSE r \in rows : r.id = MaxRowId(rows)
         IN  InIdOrder(rows \ {m}) \o <<m>>

\* RecipeDB.get_category_id: SELECT id FROM category WHERE name=?; a store
\* error (no such table) is caught inside and gives None
get_category_id(category_name) ==
    IF ~schema THEN NULL
    ELSE IF \E c \in category : c.name = category_name
         THEN (CHOOSE c \in category : c.name = category_name).id
         ELSE NULL

-----------------------------------------------------------------------------
(* RecipeDB.__init__ and reset_or_create_db *)

EmptyStaging ==
    /\ recipe_list = <<>>
    /\ ingredient_list = <<>>
    /\ category_map = <<>>

NoIngredient ==
    /\ ingredient_str = <<>>
    /\ quantity_ingredient = <<>>

\* executescript commits, drops the three tables and creates them again
reset_or_create_db ==
    /\ schema' = TRUE
    /\ category' = {}
    /\ recipes' = {}
    /\ ingredients' = {}
    /\ sqlite_sequence' = [t \in Tables |-> 0]
    /\ in_transaction' = FALSE
    /\ out' = print(out, Msg_created)
    /\ raised' = NoError
    /\ UNCHANGED <<staging, files, object>>

-----------------------------------------------------------------------------
(* read_recipe_data *)

\* category_map as a list of [name, id] in insertion order
HasKey(map, name) == \E i \in 1..Len(map) : map[i].name = name

Get(map, name) == (CHOOSE i \in 1..Len(map) : map[i].name = name)

\* the for loop over the data rows: [recipe_list, category_map]
\* faulty variant: rows of exactly three fields are skipped too
RECURSIVE StageRows_offbyone(_, _)
StageRows_offbyone(rows, st) ==
    IF rows = <<>> THEN st
    ELSE LET row == Head(rows)
         IN  IF Len(row) <= 3 THEN StageRows_offbyone(Tail(rows), st)
             ELSE StageRows_offbyone(Tail(rows),
                    [recipe_list |-> Append(st.recipe_list,
                        <<row[1], row[2], split(row[3], ",")>>),
                     category_map |->
                        IF HasKey(st.category_map, row[2]) THEN st.category_map
                        ELSE Append(st.category_map, [name |-> row[2], id |-> NULL])])

\* rows of fewer than three fields are skipped; a category name is added
\* to category_map, with None, the first time it is seen
RECURSIVE StageRows(_, _)
StageRows(rows, st) ==
    IF rows = <<>> THEN st
    ELSE LET row == Head(rows)
         IN  IF Len(row) < 3 THEN StageRows(Tail(rows), st)
             ELSE StageRows(Tail(rows),
                    [recipe_list |-> Append(st.recipe_list,
                        <<row[1], row[2], split(row[3], ",")>>),
                     category_map |->
                        IF HasKey(st.category_map, row[2]) THEN st.category_map
                        ELSE Append(st.category_map, [name |-> row[2], id |-> NULL])])

\* faulty variant: the staging lists are not emptied first
read_recipe_data_append(file_name) ==
    LET f == files[file_name]
        st == StageRows(Tail(f.lines), [recipe_list |-> recipe_list, category_map |-> category_map])
    IN  /\ IF ~f.exists \/ f.lines = <<>>
           THEN /\ recipe_list' = recipe_list
                /\ category_map' = category_map
                /\ out' = print(out, Msg_read_error)
           ELSE /\ recipe_list' = st.recipe_list
                /\ category_map' = st.category_map
                /\ out' = print(out, Msg_read)
        /\ raised' = NoError
        /\ UNCHANGED <<store, in_transaction, ingredient_list, files, object>>

\* open() fails on a missing file and next() on a file without a header line;
\* both are caught after the staging lists have been emptied
read_recipe_data(file_name) ==
    LET f == files[file_name]
        st == StageRows(Tail(f.lines), [recipe_list |-> <<>>, category_map |-> <<>>])
    IN  /\ IF ~f.exists \/ f.lines = <<>>
           THEN /\ recipe_list' = <<>>
                /\ category_map' = <<>>
                /\ out' = print(out, Msg_read_error)
           ELSE /\ recipe_list' = st.recipe_list
                /\ category_map' = st.category_map
                /\ out' = print(out, Msg_read)
        /\ raised' = NoError
        /\ UNCHANGED <<store, in_transaction, ingredient_list, files, object>>

-----------------------------------------------------------------------------
(* save_to_database *)

Lower(c) == IF c = "Y" THEN "y" ELSE IF c = "N" THEN "n" ELSE c

\* str.lower()
lower(s) == [i \in 1..Len(s) |-> Lower(s[i])]

\* input("Continue? (y/n): ").lower().strip() == "y"
Confirmed(answer) == strip(lower(answer)) = <<"y">>

SetId(map, i, id) == [map EXCEPT ![i].id = id]

\* the loop over category_map.keys(): INSERT INTO category for the keys from
\* position i on; the first failing INSERT ends the loop with its exception.
\* st is [category, seq, map, error, began]
RECURSIVE SaveCategories(_, _)
SaveCategories(i, st) ==
    IF i > Len(st.map) THEN st
    ELSE IF ~schema THEN [st EXCEPT !.error = OperationalError]
    ELSE IF \E c \in st.category : c.name = st.map[i].name
         THEN [st EXCEPT !.error = IntegrityError, !.began = TRUE]
    ELSE LET id == AutoIncrement(st.seq, st.category)
         IN  SaveCategories(i + 1,
                [category |-> st.category \cup {[id |-> id, name |-> st.map[i].name]},
                 seq |-> id,
                 map |-> SetId(st.map, i, id),
                 error |-> NoError,
                 began |-> TRUE])

\* the inner loop: one ingredients row per ingredient string of a recipe.
\* st is [rows, seq]
RECURSIVE SaveIngredients(_, _, _)
SaveIngredients(strs, recipe_id, st) ==
    IF strs = <<>> THEN st
    ELSE LET id == AutoIncrement(st.seq, st.rows)
         IN  SaveIngredients(Tail(strs), recipe_id,
                [rows |-> st.rows \cup {[id |-> id,
                                         quantity_ingredient |-> Ingredient(Head(strs)),
                                         recipe_id |-> recipe_id]},
                 seq |-> id])

\* the loop over recipe_list: INSERT INTO recipes, then its ingredients.
\* st is [recipes, rseq, ingredients, iseq]
RECURSIVE SaveRecipes(_, _, _)
SaveRecipes(list, map, st) ==
    IF list = <<>> THEN st
    ELSE LET rec == Head(list)
             category_id == map[Get(map, rec[2])].id
             recipe_id == AutoIncrement(st.rseq, st.recipes)
             ing == SaveIngredients(rec[3], recipe_id,
                                    [rows |-> st.ingredients, seq |-> st.iseq])
         IN  SaveRecipes(Tail(list), map,
                [recipes |-> st.recipes \cup {[id |-> recipe_id, name |-> rec[1],
                                               category_id |-> category_id]},
                 rseq |-> recipe_id,
                 ingredients |-> ing.rows,
                 iseq |-> ing.seq])

\* what a confirmed save does to the store and the category map
SaveResult ==
    LET cats == SaveCategories(1, [category |-> category,
                                   seq |-> sqlite_sequence["category"],
                                   map |-> category_map,
                                   error |-> NoError,
                                   began |-> FALSE])
        recs == SaveRecipes(recipe_list, cats.map,
                            [recipes |-> recipes, rseq |-> sqlite_sequence["recipes"],
                             ingredients |-> ingredients,
                             iseq |-> sqlite_sequence["ingredients"]])
    IN  IF cats.error # NoError
        THEN [category |-> cats.category, recipes |-> recipes, ingredients |-> ingredients,
              seq |-> [sqlite_sequence EXCEPT !["category"] = cats.seq],
              map |-> cats.map, error |-> cats.error,
              in_transaction |-> in_transaction \/ cats.began]
        ELSE [category |-> cats.category, recipes |-> recs.recipes,
              ingredients |-> recs.ingredients,
              seq |-> [category |-> cats.seq, recipes |-> recs.rseq, ingredients |-> recs.iseq],
              map |-> cats.map, error |-> NoError,
              in_transaction |-> FALSE]

\* no try/except surrounds the writes: an exception of an INSERT leaves
\* save_to_database with the rows inserted so far in the open transaction
save_to_database(answer) ==
    /\ IF Confirmed(answer)
       THEN LET res == SaveResult
            IN  /\ category' = res.category
                /\ recipes' = res.recipes
                /\ ingredients' = res.ingredients
                /\ sqlite_sequence' = res.seq
                /\ category_map' = res.map
                /\ in_transaction' = res.in_transaction
                /\ raised' = res.error
                /\ out' = print(out, IF res.error = NoError THEN Msg_saved ELSE Msg_records)
       ELSE /\ out' = print(out, Msg_aborted)
            /\ raised' = NoError
            /\ UNCHANGED <<tables, sqlite_sequence, category_map, in_transaction>>
    /\ UNCHANGED <<schema, recipe_list, ingredient_list, files, object>>

-----------------------------------------------------------------------------
(* add_recipe, delete_recipe, update_recipe *)

\* Python truth of an optional string: None and "" are false
Truthy(s) == s # None /\ s # ""

\* faulty variant: the None of get_category_id is not tested
add_recipe_null(name, category_name) ==
    LET category_id == get_category_id(category_name)
        id == AutoIncrement(sqlite_sequence["recipes"], recipes)
    IN  /\ IF ~schema
           THEN /\ out' = print(out, Msg_no_category)
                /\ UNCHANGED <<recipes, sqlite_sequence, in_transaction>>
           ELSE /\ recipes' = recipes \cup
                        {[id |-> id, name |-> name, category_id |-> category_id]}
                /\ sqlite_sequence' = [sqlite_sequence EXCEPT !["recipes"] = id]
                /\ in_transaction' = FALSE
                /\ out' = print(out, Msg_added)
        /\ raised' = NoError
        /\ UNCHANGED <<schema, category, ingredients, staging, files, object>>

\* the category is looked up first; without it nothing is written
add_recipe(name, category_name) ==
    LET category_id == get_category_id(category_name)
        id == AutoIncrement(sqlite_sequence["recipes"], recipes)
    IN  /\ IF category_id = NULL
           THEN /\ out' = print(out, Msg_no_category)
                /\ UNCHANGED <<recipes, sqlite_sequence, in_transaction>>
           ELSE /\ recipes' = recipes \cup
                        {[id |-> id, name |-> name, category_id |-> category_id]}
                /\ sqlite_sequence' = [sqlite_sequence EXCEPT !["recipes"] = id]
                /\ in_transaction' = FALSE
                /\ out' = print(out, Msg_added)
        /\ raised' = NoError
        /\ UNCHANGED <<schema, category, ingredients, staging, files, object>>

\* faulty variant: the ingredients of the recipe are deleted with it
delete_recipe_cascade(recipe_id) ==
    /\ IF ~schema
       THEN /\ out' = print(out, Msg_delete_error)
            /\ UNCHANGED <<recipes, ingredients, in_transaction>>
       ELSE /\ recipes' = {r \in recipes : r.id # recipe_id}
            /\ ingredients' = {g \in ingredients : g.recipe_id # recipe_id}
            /\ in_transaction' = FALSE
            /\ out' = print(out, Msg_deleted)
    /\ raised' = NoError
    /\ UNCHANGED <<schema, category, sqlite_sequence, staging, files, object>>

\* DELETE FROM recipes WHERE id=?; without the table the statement fails and
\* the error is caught
delete_recipe(recipe_id) ==
    /\ IF ~schema
       THEN /\ out' = print(out, Msg_delete_error)
            /\ UNCHANGED <<recipes, in_transaction>>
       ELSE /\ recipes' = {r \in recipes : r.id # recipe_id}
            /\ in_transaction' = FALSE
            /\ out' = print(out, Msg_deleted)
    /\ raised' = NoError
    /\ UNCHANGED <<schema, category, ingredients, sqlite_sequence, staging, files, object>>

\* UPDATE recipes SET name=? WHERE id=?
SetName(rows, recipe_id, new_name) ==
    {IF r.id = recipe_id THEN [r EXCEPT !.name = new_name] ELSE r : r \in rows}

\* UPDATE recipes SET category_id=? WHERE id=?
SetCategory(rows, recipe_id, category_id) ==
    {IF r.id = recipe_id THEN [r EXCEPT !.category_id = category_id] ELSE r : r \in rows}

\* faulty variant: both UPDATE statements run whatever the arguments are
update_recipe_always(recipe_id, new_name, new_category) ==
    LET named == SetName(recipes, recipe_id, new_name)
    IN  /\ out' = print(out, IF ~schema THEN Msg_update_error ELSE Msg_updated)
        /\ raised' = NoError
        /\ recipes' = IF ~schema THEN recipes
                      ELSE SetCategory(named, recipe_id, get_category_id(new_category))
        /\ in_transaction' = IF ~schema THEN in_transaction ELSE FALSE
        /\ UNCHANGED <<schema, category, ingredients, sqlite_sequence, staging, files, object>>

\* each UPDATE runs only for a truthy argument; without the table the first
\* UPDATE fails and the error is caught before the commit
update_recipe(recipe_id, new_name, new_category) ==
    LET failed == ~schema /\ (Truthy(new_name) \/ Truthy(new_category))
        named == IF Truthy(new_name) THEN SetName(recipes, recipe_id, new_name) ELSE recipes
    IN  /\ out' = print(out, IF failed THEN Msg_update_error ELSE Msg_updated)
        /\ raised' = NoError
        /\ recipes' = IF failed THEN recipes
                      ELSE IF Truthy(new_category)
                           THEN SetCategory(named, recipe_id, get_category_id(new_category))
                           ELSE named
        /\ in_transaction' = IF failed THEN in_transaction ELSE FALSE
        /\ UNCHANGED <<schema, category, ingredients, sqlite_sequence, staging, files, object>>

-----------------------------------------------------------------------------
(* Inputs *)

Header == <<"name", "category", <<"i">>>>

Row_stew == <<"Stew", "Soup", <<"2", " ", "a", ",", "b">>>>
Row_chili == <<"Chili", "Salad", <<"b">>>>
Row_salad == <<"Stew", "Salad", <<"b">>>>
Row_short == <<"Chili", "Soup">>
Row_long == <<"Stew", "Salad", <<"a", " ", " ", "b", ",">>, <<"x">>>>
Row_blank == <<>>

Missing == [exists |-> FALSE, lines |-> <<>>]

File(lines) == [exists |-> TRUE, lines |-> lines]

\* the files the client of RecipeDB reads in Spec
FS ==
    [name \in {"recipes.csv", "more.csv", "empty.csv", "missing.csv"} |->
        CASE name = "recipes.csv" -> File(<<Header, Row_stew, Row_short>>)
          [] name = "more.csv" -> File(<<Header, Row_salad, Row_stew>>)
          [] name = "empty.csv" -> File(<<>>)
          [] name = "missing.csv" -> Missing]

\* what the user types at "Continue? (y/n): "
Answers == {<<"y">>, <<"Y", " ">>, <<"n">>, <<"y", "e", "s">>}

RecipeIds == 1..(MaxRecipeSeq + 1)

UpdateIds == 1..MaxRecipeSeq

AddNames == {"Stew"}
AddCategories == {"Soup", "Dessert"}
NewNames == {None, "", "Pie"}
NewCategories == {None, "", "Salad"}

Rows == {Row_stew, Row_chili, Row_short, Row_long, Row_blank}

\* every recipes.csv of at most MaxRows data rows, and none at all
CsvFiles ==
    {Missing, File(<<>>)} \cup
    {File(<<Header>> \o rows) : rows \in UNION {[1..n -> Rows] : n \in 0..MaxRows}}

\* a store file left by an earlier run of the program
LeftOver ==
    [schema |-> TRUE,
     category |-> {[id |-> 1, name |-> "Soup"]},
     recipes |-> {[id |-> 2, name |-> "Pie", category_id |-> 1]},
     ingredients |-> {[id |-> 1, quantity_ingredient |-> <<" ", "b">>, recipe_id |-> 1]},
     sqlite_sequence |-> [category |-> 1, recipes |-> 2, ingredients |-> 1]]

NewStore ==
    [schema |-> FALSE, category |-> {}, recipes |-> {}, ingredients |-> {},
     sqlite_sequence |-> [t \in Tables |-> 0]]

ParseAlphabet == {"2", "a", " ", "\t"}

IngredientStrings == UNION {[1..n -> ParseAlphabet] : n \in 0..MaxLen}

-----------------------------------------------------------------------------
(* Spec: a client calls the methods of one RecipeDB in any order *)

Opened(db) ==
    /\ schema = db.schema
    /\ category = db.category
    /\ recipes = db.recipes
    /\ ingredients = db.ingredients
    /\ sqlite_sequence = db.sqlite_sequence
    /\ in_transaction = FALSE
    /\ EmptyStaging
    /\ out = Msg_none
    /\ raised = NoError

Init ==
    /\ Opened(NewStore)
    /\ files = FS
    /\ pc = "client"
    /\ NoIngredient

InBounds == sqlite_sequence'["recipes"] <= MaxRecipeSeq

Call_reset_or_create_db ==
    /\ pc = "client"
    /\ reset_or_create_db
    /\ UNCHANGED pc

Call_read_recipe_data ==
    /\ pc = "client"
    /\ \E file_name \in DOMAIN files : read_recipe_data(file_name)
    /\ UNCHANGED pc

Call_save_to_database ==
    /\ pc = "client"
    /\ \E answer \in Answers : save_to_database(answer)
    /\ InBounds
    /\ UNCHANGED pc

Call_add_recipe ==
    /\ pc = "client"
    /\ \E name \in AddNames, category_name \in AddCategories : add_recipe(name, category_name)
    /\ InBounds
    /\ UNCHANGED pc

Call_delete_recipe ==
    /\ pc = "client"
    /\ \E recipe_id \in RecipeIds : delete_recipe(recipe_id)
    /\ UNCHANGED pc

Call_update_recipe ==
    /\ pc = "client"
    /\ \E recipe_id \in UpdateIds, new_name \in NewNames, new_category \in NewCategories :
            update_recipe(recipe_id, new_name, new_category)
    /\ UNCHANGED pc

Next ==
    \/ Call_reset_or_create_db
    \/ Call_read_recipe_data
    \/ Call_save_to_database
    \/ Call_add_recipe
    \/ Call_delete_recipe
    \/ Call_update_recipe

Spec == Init /\ [][Next]_vars

-----------------------------------------------------------------------------
(* SpecImport: the start-up sequence of user_interface *)

InitImport ==
    /\ \E db \in {NewStore, LeftOver} : Opened(db)
    /\ \E f \in CsvFiles : files = [name \in {"recipes.csv"} |-> f]
    /\ pc = "reset_or_create_db"
    /\ NoIngredient

UI_reset_or_create_db ==
    /\ pc = "reset_or_create_db"
    /\ reset_or_create_db
    /\ pc' = "read_recipe_data"

UI_read_recipe_data ==
    /\ pc = "read_recipe_data"
    /\ read_recipe_data("recipes.csv")
    /\ pc' = "save_to_database"

UI_save_to_database ==
    /\ pc = "save_to_database"
    /\ \E answer \in Answers : save_to_database(answer)
    /\ pc' = "menu"

NextImport ==
    \/ UI_reset_or_create_db
    \/ UI_read_recipe_data
    \/ UI_save_to_database

SpecImport == InitImport /\ [][NextImport]_vars

-----------------------------------------------------------------------------
(* SpecParse: one Ingredient is constructed from an arbitrary string *)

InitParse ==
    /\ Opened(NewStore)
    /\ files = FS
    /\ pc = "Ingredient"
    /\ ingredient_str \in IngredientStrings
    /\ quantity_ingredient = <<>>

Ingredient_init ==
    /\ pc = "Ingredient"
    /\ quantity_ingredient' = Ingredient(ingredient_str)
    /\ pc' = "constructed"
    /\ UNCHANGED <<store, in_transaction, staging, files, out, raised, ingredient_str>>

NextParse == Ingredient_init

SpecParse == InitParse /\ [][NextParse]_vars

-----------------------------------------------------------------------------
(* Properties *)

Ids(rows) == {r.id : r \in rows}

Referenced(r) == \E c \in category : c.id = r.category_id

Orphan(g, rows) == g.recipe_id \notin Ids(rows)

\* C1: every row of recipes has a category_id that is the id of a row of
\* category, whatever calls were made
C1_CategoryReferenced == \A r \in recipes : Referenced(r)

\* C2: add_recipe with a category name that is not in the category table
\* changes no table and lets no exception escape
C2_AddUnknownCategory ==
    [][\A name \in AddNames, category_name \in AddCategories :
          ((\A c \in category : c.name # category_name) /\ add_recipe(name, category_name))
          => (UNCHANGED <<tables, sqlite_sequence>> /\ raised' = NoError)]_vars

C2_Witness ==
    /\ out = Msg_no_category
    /\ category # {}
    /\ recipes # {}

\* C3: delete_recipe(id) removes exactly the recipes row with that id and
\* changes neither category nor ingredients
C3_DeleteFrame ==
    [][\A recipe_id \in RecipeIds :
          delete_recipe(recipe_id)
          => /\ recipes' \subseteq recipes
             /\ \A r \in recipes : (r \in recipes') <=> (r.id # recipe_id)
             /\ UNCHANGED <<category, ingredients>>]_vars

C3_Witness ==
    /\ out = Msg_deleted
    /\ \E g \in ingredients : Orphan(g, recipes)

\* C4: update_recipe touches only the row with the given id and only the
\* fields given: nothing at all when both are None or blank, not category_id
\* when only new_name is given, not name when only new_category is given
C4_UpdateFrame ==
    [][\A recipe_id \in UpdateIds, new_name \in NewNames, new_category \in NewCategories :
          update_recipe(recipe_id, new_name, new_category)
          => /\ UNCHANGED <<category, ingredients>>
             /\ {r \in recipes' : r.id # recipe_id} = {r \in recipes : r.id # recipe_id}
             /\ Ids(recipes') = Ids(recipes)
             /\ (~Truthy(new_name) /\ ~Truthy(new_category)) => UNCHANGED recipes
             /\ ~Truthy(new_category) =>
                    \A r \in recipes : \E q \in recipes' :
                        q.id = r.id /\ q.category_id = r.category_id
             /\ ~Truthy(new_name) =>
                    \A r \in recipes : \E q \in recipes' :
                        q.id = r.id /\ q.name = r.name]_vars

C4_Witness ==
    /\ out = Msg_updated
    /\ \E r \in recipes : r.name = "Pie" /\ Referenced(r)
    /\ \E r \in recipes : r.name # "Pie"

DataRows(f) == IF f.lines = <<>> THEN <<>> ELSE Tail(f.lines)

ValidRow(row) == Len(row) >= 3

ValidRows(f) == SelectSeq(DataRows(f), ValidRow)

\* C5: a declined save writes no row, and the read_recipe_data that follows
\* it stages the rows of its file only
C5_DeclinedSave ==
    [][/\ \A answer \in Answers :
            (strip(lower(answer)) # <<"y">> /\ save_to_database(answer))
            => UNCHANGED <<tables, sqlite_sequence>>
       /\ \A file_name \in DOMAIN files :
            (out = Msg_aborted /\ read_recipe_data(file_name))
            => /\ Len(recipe_list') = Len(ValidRows(files[file_name]))
               /\ \A i \in 1..Len(recipe_list') :
                    recipe_list'[i][1] = ValidRows(files[file_name])[i][1]
               /\ \A i \in 1..Len(category_map') :
                    /\ category_map'[i].id = NULL
                    /\ \E k \in 1..Len(recipe_list') :
                         recipe_list'[k][2] = category_map'[i].name]_vars

C5_Witness ==
    /\ out = Msg_aborted
    /\ recipe_list # <<>>
    /\ category_map # <<>>
    /\ schema
    /\ category = {}

ParsedEntries(row) ==
    LET entries == split(row[3], ",")
    IN  [i \in 1..Len(entries) |-> Ingredient(entries[i])]

IngredientsOf(recipe_id) ==
    LET rows == InIdOrder({g \in ingredients : g.recipe_id = recipe_id})
    IN  [i \in 1..Len(rows) |-> rows[i].quantity_ingredient]

\* C6: after reset, read and a confirmed save the store holds one recipe per
\* data row of at least three fields, in file order, with the row's name,
\* the id of the category of the row's category name, and the parsed
\* entries of the row's ingredient list in order
C6_RoundTrip ==
    (pc = "menu" /\ out = Msg_saved) =>
        LET valid == ValidRows(files["recipes.csv"])
        IN  /\ Ids(recipes) = 1..Len(valid)
            /\ Cardinality(recipes) = Len(valid)
            /\ \A k \in 1..Len(valid) : \E r \in recipes :
                    /\ r.id = k
                    /\ r.name = valid[k][1]
                    /\ \E c \in category : c.id = r.category_id /\ c.name = valid[k][2]
                    /\ IngredientsOf(k) = ParsedEntries(valid[k])
            /\ \A g \in ingredients : g.recipe_id \in Ids(recipes)
            /\ Cardinality({c.name : c \in category}) = Cardinality(category)

C6_Witness ==
    /\ pc = "menu"
    /\ out = Msg_saved
    /\ Cardinality(recipes) >= 1
    /\ Len(DataRows(files["recipes.csv"])) > Cardinality(recipes)
    /\ Cardinality(ingredients) > Cardinality(recipes)

IsWhitespace(c) == c \in Whitespace

IsSpace(c) == c = " "

\* the first position of s that satisfies Test, or 0
FirstWhere(s, Test(_)) ==
    IF \E i \in 1..Len(s) : Test(s[i])
    THEN CHOOSE i \in 1..Len(s) : Test(s[i]) /\ \A j \in 1..(i-1) : ~Test(s[j])
    ELSE 0

\* quantity + one space + name, cutting s at position i
JoinAt(s, i) == strip(SubSeq(s, 1, i - 1)) \o <<" ">> \o strip(SubSeq(s, i + 1, Len(s)))

\* C7 as stated: the stored value is quantity + " " + name, cut at the first
\* whitespace run; without whitespace it is " " + the whole string
C7_SplitAtWhitespace ==
    pc = "constructed" =>
        LET i == FirstWhere(ingredient_str, IsWhitespace)
        IN  quantity_ingredient =
                IF i = 0 THEN <<" ">> \o ingredient_str ELSE JoinAt(ingredient_str, i)

\* C7 amended: the stored value is quantity + " " + name, cut at the first
\* space character; without a space character it is " " + the trimmed string
C7_SplitAtSpace ==
    pc = "constructed" =>
        LET i == FirstWhere(ingredient_str, IsSpace)
        IN  quantity_ingredient =
                IF i = 0 THEN <<" ">> \o strip(ingredient_str) ELSE JoinAt(ingredient_str, i)

C7_Witness ==
    /\ pc = "constructed"
    /\ ingredient_str = <<"2", "\t", "a">>
    /\ quantity_ingredient = <<" ", "2", "\t", "a">>

\* C8: no store error of a confirmed save_to_database reaches the caller
C8_SaveNeverRaises == raised = NoError

\* C9: a confirmed save inserts no category row for a staged category whose
\* category_map entry already holds an id, and the entry keeps that id
C9_OnlyUnassigned ==
    [][\A answer \in Answers :
          (Confirmed(answer) /\ save_to_database(answer))
          => \A i \in 1..Len(category_map) :
                category_map[i].id # NULL
                => /\ {c \in category' : c.name = category_map[i].name}
                        = {c \in category : c.name = category_map[i].name}
                   /\ category_map'[i] = category_map[i]]_vars

\* C10: between two resets no recipe id is assigned twice, so an ingredient
\* row orphaned by a delete is never attached to a recipe created later
C10_NoIdReuse ==
    [][/\ \A r \in recipes' :
            r.id \notin Ids(recipes) => r.id > sqlite_sequence["recipes"]
       /\ \A g \in ingredients \cap ingredients' :
            Orphan(g, recipes) => Orphan(g, recipes')]_vars

C10_Witness ==
    \E g \in ingredients :
        /\ Orphan(g, recipes)
        /\ \E r \in recipes : r.id > g.recipe_id

====
